---------------------------- MODULE Spec2Model ----------------------------
(***************************************************************************)
(* The durability, transaction and readiness layer of the web SQLite       *)
(* provider.                                                               *)
(*                                                                         *)
(* Two variants of the provider are in the repository and both are         *)
(* modelled; the variable `variant` says which one a behaviour runs:       *)
(*   "web"  src/services/database/SQLiteProvider.web.tsx: openDatabaseAsync *)
(*          hydrates a sql.js engine from IndexedDB, the handle's          *)
(*          operations persist with saveDB, and the provider renders its   *)
(*          children only once the handle is published (db && ...).        *)
(*   "gate" src/unnamed/part_000 lines 159-348: the provider always        *)
(*          renders its children and every operation first awaits          *)
(*          waitForDb(), which polls dbRef every 50 ms; no persistence.    *)
(*                                                                         *)
(* One step of the model is one synchronous turn of the JavaScript event   *)
(* loop: the code between two awaits.                                      *)
(***************************************************************************)
EXTENDS Naturals, Sequences, FiniteSets

\* ------------------------------------------------------------------ bounds
NumCallers == 2   \* concurrent consumers of the context
MaxOpens   == 2   \* runs of the provider's effect in one provider lifetime
MaxRowId   == 2   \* rows the items table can hold
MaxPending == 2   \* snapshot writes in flight
MaxStmts   == 2   \* prepared statements a connection holds unreleased

Callers == 1..NumCallers
Handles == 1..MaxOpens
RowIds  == 1..MaxRowId

Null   == 0          \* React state / ref holding null
Absent == [absent |-> TRUE]   \* no blob stored under the database name
CorruptBlob == [corrupt |-> TRUE]   \* stored bytes that are not a database

VARIABLES
  variant,        \* "web" | "gate"
  exportReopens,  \* how the engine's export() treats an open transaction
  blob,           \* Blob Store: the snapshot stored under the name, or Absent
  pending,        \* snapshot writes issued by saveDB and not yet completed
  engine,         \* handle -> the sql.js Database it closes over
  open,           \* handle -> progress of the effect run that creates it
  db,             \* the provider's `db` state: published handle or Null
  dbRef,          \* gate variant: dbRef.current
  caller,         \* caller -> the operation it has in progress
  outcome,        \* the call that settled in the last step, and how
  hookCalls,      \* history: invocations of onInit in this provider lifetime
  lastCommitted   \* history: engine content after the last committing mutation

vars == <<variant, exportReopens, blob, pending, engine, open, db,
          dbRef, caller, outcome, hookCalls, lastCommitted>>

\* ------------------------------------------------------------------ engine
\* The embedded SQL engine: one connection, the items table's rows, the
\* user_version pragma, and SQLite's single-level transaction.
DATABASE_VERSION == 1

Max(S) == IF S = {} THEN 0 ELSE CHOOSE m \in S : \A x \in S : x <= m

\* new SQL.Database(): an empty engine. lastId and changes are the
\* connection's last_insert_rowid() and getRowsModified() counters, stmts the
\* prepared statements not yet freed, broken whether the database file the
\* connection was opened over is not a database.
EmptyEngine ==
  [rows |-> {}, ver |-> 0, inTx |-> FALSE, base |-> {},
   lastId |-> 0, changes |-> 0, stmts |-> 0, broken |-> FALSE]

\* A Serialized Snapshot: the content a blob carries.
Snapshots == [rows : SUBSET RowIds, ver : 0..DATABASE_VERSION]

\* new SQL.Database(savedData): an engine holding the snapshot's content.
FromSnapshot(s) ==
  [EmptyEngine EXCEPT !.rows = s.rows, !.ver = s.ver, !.base = s.rows]

\* new SQL.Database(savedData) over bytes that are not a database, when the
\* engine opens the file lazily: the constructor returns and every statement
\* that reads the file raises.
BrokenEngine == [EmptyEngine EXCEPT !.broken = TRUE]

\* The content the engine has committed: what its database file holds.
Committed(e) == [rows |-> IF e.inTx THEN e.base ELSE e.rows, ver |-> e.ver]

\* What a query (getAllAsync / getFirstAsync) observes: rows and schema,
\* uncommitted changes of the connection's own transaction included.
Content(e) == [rows |-> e.rows, ver |-> e.ver]

\* INSERT INTO items ...: fails (QueryError) when the table does not exist or
\* the file is not a database; the new row gets rowid max+1 and the
\* connection's counters are set.
CanInsert(e) == ~e.broken /\ e.ver >= DATABASE_VERSION
Insert(e) ==
  LET id == Max(e.rows) + 1
  IN  [e EXCEPT !.rows = e.rows \cup {id},
                !.base = IF e.inTx THEN e.base ELSE e.rows \cup {id},
                !.lastId = id,
                !.changes = 1]

\* BEGIN TRANSACTION: rejected when a transaction is already active.
Begin(e) == [e EXCEPT !.inTx = TRUE, !.base = e.rows]
\* COMMIT / ROLLBACK: rejected when no transaction is active.
Commit(e) == [e EXCEPT !.inTx = FALSE, !.base = e.rows]
Rollback(e) == [e EXCEPT !.inTx = FALSE, !.rows = e.base]


\* db.export(): serialises the engine. The engine library is not part of the
\* repository; its export either snapshots the connection's current content
\* and leaves the connection alone, or closes and reopens the connection,
\* which rolls an open transaction back and snapshots the database file.
\* exportReopens fixes which of the two the build's engine does.
\* Exporting a connection opened over bytes that are not a database returns
\* those bytes.
ExportSnapshot(e) ==
  IF e.broken THEN CorruptBlob
  ELSE IF exportReopens THEN Committed(e) ELSE Content(e)
ExportEngine(e) ==
  IF e.broken THEN e
  ELSE IF exportReopens
       THEN FromSnapshot(Committed(e))
       ELSE e

\* migrateDbIfNeeded: creates the items table and sets user_version when the
\* stored version is older than DATABASE_VERSION.
migrateDbIfNeeded(e) ==
  IF e.ver >= DATABASE_VERSION THEN e
  ELSE [e EXCEPT !.ver = DATABASE_VERSION]

\* --------------------------------------------------------------- blob store
\* saveDB(databaseName, database): db.export() runs synchronously in the
\* caller's turn; the IndexedDB write it starts completes later.
saveDB(e) == Append(pending, ExportSnapshot(e))

\* loadDB(databaseName) -> loadDatabaseFromIndexedDB. How the read ends:
\*   "found"     request.onsuccess: resolve(request.result || null);
\*   "openError" openIndexedDB rejects inside the try block: the catch logs
\*               and returns null;
\*   "getError"  request.onerror rejects the promise the try block returned
\*               without awaiting it: the catch does not run and loadDB
\*               rejects.
ReadResults == {"found", "openError", "getError"}

loadDB(read) == IF read = "found" THEN blob ELSE Absent

\* new SQL.Database(savedData) when savedData is truthy, else new SQL.Database().
Hydrate(savedData) ==
  IF savedData = Absent THEN EmptyEngine
  ELSE IF savedData = CorruptBlob THEN BrokenEngine
  ELSE FromSnapshot(savedData)

\* What the store holds once every write in flight has completed.
Durable == IF pending = <<>> THEN blob ELSE pending[Len(pending)]

\* ------------------------------------------------------------------ callers
IdleCaller ==
  [pc |-> "idle", h |-> Null, kind |-> "none", raised |-> "none",
   pre |-> {}, ins |-> {}, wrote |-> FALSE, early |-> FALSE]

\* What a call returns when it returns no counters.
NoResult == [lastInsertRowId |-> 0, changes |-> 0]

\* No call settled in the last step.
NoOutcome ==
  [c |-> 0, h |-> Null, op |-> "none", res |-> "none", raised |-> "none",
   pre |-> {}, ins |-> {}, wrote |-> FALSE, early |-> FALSE,
   unreleased |-> 0, result |-> NoResult]

\* A call that is one turn long settles.
Settle(c, h, op, res) ==
  [c |-> c, h |-> h, op |-> op, res |-> res, raised |-> "none",
   pre |-> {}, ins |-> {}, wrote |-> FALSE, early |-> caller[c].early,
   unreleased |-> 0, result |-> NoResult]

\* A transactional call settles: what its callback raised, the rows before
\* its BEGIN, the rows its callback inserted, whether the callback issued a
\* write that changes what the store will hold, and (gate variant) whether
\* the call was made before dbRef was set.
SettleTx(c, res) ==
  [c |-> c, h |-> caller[c].h, op |-> caller[c].kind, res |-> res,
   raised |-> caller[c].raised, pre |-> caller[c].pre, ins |-> caller[c].ins,
   wrote |-> caller[c].wrote, early |-> caller[c].early, unreleased |-> 0,
   result |-> NoResult]

\* The statement a consumer issues is an INSERT into items; the bound on the
\* table's size decides whether one more can be issued.
CanIssue(e) == Max(e.rows) < MaxRowId

\* Content after a committing mutation; unchanged when the statement became
\* part of an open transaction.
NoteCommit(e) == IF e.inTx THEN lastCommitted ELSE Content(e)

\* How the write of saveDatabaseToIndexedDB ends:
\*   "stored"    request.onsuccess: the blob is replaced;
\*   "openError" openIndexedDB rejects inside the try block: the catch logs
\*               and the promise fulfils;
\*   "putError"  request.onerror rejects the promise the try block returned
\*               without awaiting it; saveDB's promise rejects, and no caller
\*               holds it (saveDB is called without await).
SaveResults == {"stored", "openError", "putError"}

\* A write that failed: the failure reaches no caller (c = 0).
WriteFailed(res) == [NoOutcome EXCEPT !.op = "saveFailed", !.res = res]

\* Faulty variant of CompletionOrder: the newest write completes first.
CompletionOrder_Reversed(q) == [i \in 1..Len(q) |-> q[Len(q) + 1 - i]]

\* The order in which the writes in flight complete. Every call opens the
\* same IndexedDB database and puts under the same key of the same object
\* store in a readwrite transaction of its own; the open requests are served
\* in the order made and the store runs such transactions in the order they
\* were created, so the writes complete in the order saveDB issued them.
CompletionOrder(q) == q

\* The next write in flight completes.
saveDatabaseToIndexedDB(res) ==
  /\ variant = "web"
  /\ pending # <<>>
  /\ blob' = IF res = "stored" THEN Head(CompletionOrder(pending)) ELSE blob
  /\ pending' = Tail(CompletionOrder(pending))
  /\ outcome' = IF res = "stored" THEN NoOutcome ELSE WriteFailed(res)
  /\ UNCHANGED <<variant, exportReopens, engine, open, db, dbRef, caller,
                 hookCalls, lastCommitted>>

\* execAsync(query): database.exec(query); the saveDB call is commented out.
execAsync(c) ==
  /\ variant = "web"
  /\ caller[c].pc = "idle"
  /\ db # Null
  /\ CanIssue(engine[db])
  /\ IF CanInsert(engine[db])
     THEN /\ engine' = [engine EXCEPT ![db] = Insert(engine[db])]
          /\ lastCommitted' = NoteCommit(Insert(engine[db]))
          /\ outcome' = Settle(c, db, "exec", "ok")
     ELSE /\ outcome' = Settle(c, db, "exec", "QueryError")
          /\ UNCHANGED <<engine, lastCommitted>>
  /\ UNCHANGED <<variant, exportReopens, blob, pending, open, db, dbRef,
                 caller, hookCalls>>

\* Faulty variant of ReadCounters: the counters are read after saveDB's
\* export instead of before it.
ReadCounters_AfterSave(e) ==
  [lastInsertRowId |-> ExportEngine(e).lastId,
   changes |-> ExportEngine(e).changes]

\* const result = { lastInsertRowId: SELECT last_insert_rowid(),
\*                  changes: database.getRowsModified() }
\* read from the connection right after database.run, in the same turn.
ReadCounters(e) == [lastInsertRowId |-> e.lastId, changes |-> e.changes]

\* runAsync(query, ...params): database.run, read the counters, saveDB (not
\* awaited), return the counters. outcome.ins is the row the call inserted.
runAsync(c) ==
  /\ variant = "web"
  /\ caller[c].pc = "idle"
  /\ db # Null
  /\ CanIssue(engine[db])
  /\ Len(pending) < MaxPending
  /\ IF CanInsert(engine[db])
     THEN LET e1 == Insert(engine[db])
          IN  /\ pending' = saveDB(e1)
              /\ engine' = [engine EXCEPT ![db] = ExportEngine(e1)]
              /\ lastCommitted' = NoteCommit(e1)
              /\ outcome' = [Settle(c, db, "run", "ok")
                               EXCEPT !.result = ReadCounters(e1),
                                      !.ins = {Max(e1.rows)}]
     ELSE /\ outcome' = Settle(c, db, "run", "QueryError")
          /\ UNCHANGED <<engine, lastCommitted, pending>>
  /\ UNCHANGED <<variant, exportReopens, blob, open, db, dbRef, caller,
                 hookCalls>>

\* ------------------------------------------------------------------ queries
\* getFirstAsync / getAllAsync: prepare, bind, step, free, all in one turn and
\* with no try/finally. Where the call raises, if it does:
\*   "prepare"  the SQL does not compile (always so when the items table is
\*              missing or the file is not a database): no statement exists;
\*   "bind"     the parameters do not fit the statement;
\*   "step"     the engine raises while producing a row;
\* after "bind" and "step" control leaves the function before stmt.free().
QueryFaults == {"none", "prepare", "bind", "step"}

QueryResult(fault) ==
  CASE fault = "none"    -> "rows"
    [] fault = "prepare" -> "QueryError"
    [] fault = "bind"    -> "BindError"
    [] fault = "step"    -> "StepError"

\* Statements the call leaves unreleased.
Unreleased(fault) == IF fault \in {"bind", "step"} THEN 1 ELSE 0

Query(c, op, fault) ==
  /\ variant = "web"
  /\ caller[c].pc = "idle"
  /\ db # Null
  /\ ~CanInsert(engine[db]) => fault = "prepare"
  /\ engine[db].stmts + Unreleased(fault) <= MaxStmts
  /\ engine' = [engine EXCEPT ![db].stmts = @ + Unreleased(fault)]
  /\ outcome' = [Settle(c, db, op, QueryResult(fault))
                   EXCEPT !.unreleased = Unreleased(fault)]
  /\ UNCHANGED <<variant, exportReopens, blob, pending, open, db, dbRef,
                 caller, hookCalls, lastCommitted>>

getFirstAsync(c) == \E fault \in QueryFaults : Query(c, "getFirst", fault)

getAllAsync(c) == \E fault \in QueryFaults : Query(c, "getAll", fault)

\* ------------------------------------------------------------- transactions
\* The bodies of withTransactionAsync and withExclusiveTransactionAsync are
\* the same code; `kind` records which entry point was called.
\*
\* First turn: database.run('BEGIN TRANSACTION') and the call of callback().
\* When BEGIN is rejected control goes to the catch block in the same turn:
\* ROLLBACK runs against whatever transaction is active, then the error is
\* rethrown.
TxBegin(c, kind) ==
  /\ variant = "web"
  /\ caller[c].pc = "idle"
  /\ db # Null
  /\ IF engine[db].inTx
     THEN /\ engine' = [engine EXCEPT ![db] = Rollback(engine[db])]
          /\ outcome' = Settle(c, db, kind, "BeginError")
          /\ UNCHANGED caller
     ELSE /\ engine' = [engine EXCEPT ![db] = Begin(engine[db])]
          /\ caller' = [caller EXCEPT ![c] =
                          [IdleCaller EXCEPT !.pc = "cb", !.h = db,
                                             !.kind = kind,
                                             !.pre = engine[db].rows]]
          /\ outcome' = NoOutcome
  /\ UNCHANGED <<variant, exportReopens, blob, pending, open, db, dbRef,
                 hookCalls, lastCommitted>>

withTransactionAsync(c) == TxBegin(c, "tx")

withExclusiveTransactionAsync(c) == TxBegin(c, "excl")

\* The callback awaits db.runAsync(INSERT ...) on the handle.
CbRun(c) ==
  LET h == caller[c].h IN
  /\ variant = "web"
  /\ caller[c].pc = "cb"
  /\ CanIssue(engine[h])
  /\ Len(pending) < MaxPending
  /\ IF CanInsert(engine[h])
     THEN LET e1 == Insert(engine[h])
          IN  /\ pending' = saveDB(e1)
              /\ engine' = [engine EXCEPT ![h] = ExportEngine(e1)]
              /\ lastCommitted' = NoteCommit(e1)
              /\ caller' = [caller EXCEPT
                    ![c].ins = @ \cup {Max(e1.rows)},
                    ![c].wrote = @ \/ ExportSnapshot(e1) # Durable]
     ELSE /\ caller' = [caller EXCEPT ![c].pc = "cbErr",
                                      ![c].raised = "QueryError"]
          /\ UNCHANGED <<engine, lastCommitted, pending>>
  /\ outcome' = NoOutcome
  /\ UNCHANGED <<variant, exportReopens, blob, open, db, dbRef, hookCalls>>

\* The callback awaits db.execAsync(INSERT ...) on the handle.
CbExec(c) ==
  LET h == caller[c].h IN
  /\ variant = "web"
  /\ caller[c].pc = "cb"
  /\ CanIssue(engine[h])
  /\ IF CanInsert(engine[h])
     THEN /\ engine' = [engine EXCEPT ![h] = Insert(engine[h])]
          /\ lastCommitted' = NoteCommit(Insert(engine[h]))
          /\ caller' = [caller EXCEPT ![c].ins = @ \cup {Max(engine[h].rows) + 1}]
     ELSE /\ caller' = [caller EXCEPT ![c].pc = "cbErr",
                                      ![c].raised = "QueryError"]
          /\ UNCHANGED <<engine, lastCommitted>>
  /\ outcome' = NoOutcome
  /\ UNCHANGED <<variant, exportReopens, blob, pending, open, db, dbRef,
                 hookCalls>>

\* The callback's promise fulfils.
CbReturn(c) ==
  /\ variant = "web"
  /\ caller[c].pc = "cb"
  /\ caller' = [caller EXCEPT ![c].pc = "cbDone"]
  /\ outcome' = NoOutcome
  /\ UNCHANGED <<variant, exportReopens, blob, pending, engine, open, db,
                 dbRef, hookCalls, lastCommitted>>

\* The callback's own code throws.
CbThrow(c) ==
  /\ variant = "web"
  /\ caller[c].pc = "cb"
  /\ caller' = [caller EXCEPT ![c].pc = "cbErr", ![c].raised = "CbError"]
  /\ outcome' = NoOutcome
  /\ UNCHANGED <<variant, exportReopens, blob, pending, engine, open, db,
                 dbRef, hookCalls, lastCommitted>>

\* After `await callback()` fulfils: COMMIT, saveDB, return result. A COMMIT
\* that is rejected (no transaction active) is caught by the same try block:
\* ROLLBACK is rejected for the same reason and its error is what the call
\* rejects with.
TxCommit(c) ==
  LET h == caller[c].h IN
  /\ variant = "web"
  /\ caller[c].pc = "cbDone"
  /\ IF engine[h].inTx
     THEN LET e1 == Commit(engine[h])
          IN  /\ Len(pending) < MaxPending
              /\ pending' = saveDB(e1)
              /\ engine' = [engine EXCEPT ![h] = ExportEngine(e1)]
              /\ lastCommitted' = Content(e1)
              /\ outcome' = SettleTx(c, "ok")
     ELSE /\ outcome' = SettleTx(c, "RollbackError")
          /\ UNCHANGED <<engine, lastCommitted, pending>>
  /\ caller' = [caller EXCEPT ![c] = IdleCaller]
  /\ UNCHANGED <<variant, exportReopens, blob, open, db, dbRef, hookCalls>>

\* After `await callback()` rejects: catch (err) { ROLLBACK; throw err }.
TxCatch(c) ==
  LET h == caller[c].h IN
  /\ variant = "web"
  /\ caller[c].pc = "cbErr"
  /\ IF engine[h].inTx
     THEN /\ engine' = [engine EXCEPT ![h] = Rollback(engine[h])]
          /\ outcome' = SettleTx(c, caller[c].raised)
     ELSE /\ outcome' = SettleTx(c, "RollbackError")
          /\ UNCHANGED engine
  /\ caller' = [caller EXCEPT ![c] = IdleCaller]
  /\ UNCHANGED <<variant, exportReopens, blob, pending, open, db, dbRef,
                 hookCalls, lastCommitted>>

\* ------------------------------------------------------- provider ("web")
\* open[h].err records why the run failed: "ModuleError" (the engine module did
\* not load), "StorageError" (the Blob Store read rejected), "CorruptError"
\* (the engine rejected the stored snapshot), "HookError" (onInit raised).
NotRun == [pc |-> "none", hook |-> FALSE, err |-> "none"]

\* The handle the next run of the effect creates.
NextHandle(h) ==
  /\ open[h].pc = "none"
  /\ \A g \in Handles : g < h => open[g].pc # "none"

\* useEffect(() => { openDatabaseAsync(databaseName).then(...) }, [onInit]):
\* runs on mount and again whenever a render passes another onInit; the
\* effect has no cleanup. `hook` says whether the onInit prop is set.
SQLiteProvider(h, hook) ==
  /\ variant = "web"
  /\ NextHandle(h)
  /\ open' = [open EXCEPT ![h] = [pc |-> "import", hook |-> hook, err |-> "none"]]
  /\ outcome' = NoOutcome
  /\ UNCHANGED <<variant, exportReopens, blob, pending, engine, db, dbRef,
                 caller, hookCalls, lastCommitted>>

\* await import('sql.js'); await initSqlJs(...): the engine module loads, or
\* the load fails and openDatabaseAsync rejects (nothing handles it).
initSqlJs(h, ok) ==
  /\ variant = "web"
  /\ open[h].pc = "import"
  /\ open' = IF ok THEN [open EXCEPT ![h].pc = "load"]
              ELSE [open EXCEPT ![h].pc = "failed", ![h].err = "ModuleError"]
  /\ outcome' = NoOutcome
  /\ UNCHANGED <<variant, exportReopens, blob, pending, engine, db, dbRef,
                 caller, hookCalls, lastCommitted>>

\* const savedData = await loadDB(databaseName);
\* const database = savedData ? new SQL.Database(savedData) : new SQL.Database();
\* A rejected read leaves openDatabaseAsync rejected. Stored bytes that are
\* not a database either make the constructor throw or, when the engine opens
\* the file lazily, give a connection whose statements raise; the engine
\* library is not part of the repository, so either can happen.
openDatabaseAsync(h) ==
  /\ variant = "web"
  /\ open[h].pc = "load"
  /\ \E read \in ReadResults, lazy \in BOOLEAN :
       IF read = "getError"
       THEN /\ open' = [open EXCEPT ![h].pc = "failed",
                                     ![h].err = "StorageError"]
            /\ UNCHANGED engine
       ELSE IF loadDB(read) = CorruptBlob /\ ~lazy
       THEN /\ open' = [open EXCEPT ![h].pc = "failed",
                                     ![h].err = "CorruptError"]
            /\ UNCHANGED engine
       ELSE /\ engine' = [engine EXCEPT ![h] = Hydrate(loadDB(read))]
            /\ open' = [open EXCEPT ![h].pc = "opened"]
  /\ outcome' = NoOutcome
  /\ UNCHANGED <<variant, exportReopens, blob, pending, db, dbRef, caller,
                 hookCalls, lastCommitted>>

\* if (onInit) await onInit(database): the hook runs the migration against
\* the engine, or raises (its statements do when the file is not a database);
\* a raise leaves the .then callback rejected and setDb is never reached.
onInit(h, ok) ==
  /\ variant = "web"
  /\ open[h].pc = "opened"
  /\ open[h].hook
  /\ hookCalls' = hookCalls + 1
  /\ IF ok /\ ~engine[h].broken
     THEN /\ engine' = [engine EXCEPT ![h] = migrateDbIfNeeded(engine[h])]
          /\ open' = [open EXCEPT ![h].pc = "inited"]
     ELSE /\ open' = [open EXCEPT ![h].pc = "failed", ![h].err = "HookError"]
          /\ UNCHANGED engine
  /\ outcome' = NoOutcome
  /\ UNCHANGED <<variant, exportReopens, blob, pending, db, dbRef, caller,
                 lastCommitted>>

\* Faulty variant of InitComplete: a rejected open is published all the same.
InitComplete_OrFailed(h) ==
  \/ open[h].pc \in {"inited", "failed"}
  \/ open[h].pc = "opened" /\ ~open[h].hook

\* Faulty variant of InitComplete: the handle is published as soon as the
\* engine module has loaded, before hydration and onInit.
InitComplete_Eager(h) == open[h].pc \in {"load", "opened", "inited"}

\* Faulty variant of InitComplete: setDb is reached without awaiting onInit.
InitComplete_NoAwait(h) == open[h].pc \in {"opened", "inited"}

\* The handle may be published: the hook has returned, or there is none.
InitComplete(h) ==
  \/ open[h].pc = "inited"
  \/ open[h].pc = "opened" /\ ~open[h].hook

\* setDb(database): from the next render on, the provider renders its
\* children with this handle as the context value.
setDb(h) ==
  /\ variant = "web"
  /\ InitComplete(h)
  /\ db' = h
  /\ open' = [open EXCEPT ![h].pc = "published"]
  /\ outcome' = NoOutcome
  /\ UNCHANGED <<variant, exportReopens, blob, pending, engine, dbRef,
                 caller, hookCalls, lastCommitted>>

\* The page is closed and opened again once every call has settled and every
\* write has completed: memory is lost, the Blob Store is kept.
Restart ==
  /\ variant = "web"
  /\ db # Null
  /\ pending = <<>>
  /\ \A c \in Callers : caller[c].pc = "idle"
  /\ engine' = [h \in Handles |-> EmptyEngine]
  /\ open' = [h \in Handles |-> NotRun]
  /\ db' = Null
  /\ outcome' = NoOutcome
  /\ hookCalls' = 0
  /\ UNCHANGED <<variant, exportReopens, blob, pending, dbRef, caller,
                 lastCommitted>>

\* ------------------------------------------------------ provider ("gate")
\* useEffect(() => { import('sql.js').then(...) }, [onInit]) of the gate
\* variant: runs on mount and again whenever a render passes another onInit.
GateProvider(h, hook) ==
  /\ variant = "gate"
  /\ NextHandle(h)
  /\ open' = [open EXCEPT ![h] = [pc |-> "import", hook |-> hook, err |-> "none"]]
  /\ outcome' = NoOutcome
  /\ UNCHANGED <<variant, exportReopens, blob, pending, engine, db, dbRef,
                 caller, hookCalls, lastCommitted>>

\* initSqlJs(...).then(async (SQL) => { const database = new SQL.Database();
\* ...: always a fresh engine; or the module load fails.
GateInitSqlJs(h, ok) ==
  /\ variant = "gate"
  /\ open[h].pc = "import"
  /\ IF ok
     THEN /\ engine' = [engine EXCEPT ![h] = EmptyEngine]
          /\ open' = [open EXCEPT ![h].pc = "opened"]
     ELSE /\ open' = [open EXCEPT ![h].pc = "failed", ![h].err = "ModuleError"]
          /\ UNCHANGED engine
  /\ outcome' = NoOutcome
  /\ UNCHANGED <<variant, exportReopens, blob, pending, db, dbRef, caller,
                 hookCalls, lastCommitted>>

\* if (onInit) { await onInit(api); }
GateOnInit(h, ok) ==
  /\ variant = "gate"
  /\ open[h].pc = "opened"
  /\ open[h].hook
  /\ hookCalls' = hookCalls + 1
  /\ IF ok /\ ~engine[h].broken
     THEN /\ engine' = [engine EXCEPT ![h] = migrateDbIfNeeded(engine[h])]
          /\ open' = [open EXCEPT ![h].pc = "inited"]
     ELSE /\ open' = [open EXCEPT ![h].pc = "failed", ![h].err = "HookError"]
          /\ UNCHANGED engine
  /\ outcome' = NoOutcome
  /\ UNCHANGED <<variant, exportReopens, blob, pending, db, dbRef, caller,
                 lastCommitted>>

\* dbRef.current = database; setDb(database); setIsReady(true);
GateReady(h) ==
  /\ variant = "gate"
  /\ InitComplete(h)
  /\ dbRef' = h
  /\ db' = h
  /\ open' = [open EXCEPT ![h].pc = "published"]
  /\ outcome' = NoOutcome
  /\ UNCHANGED <<variant, exportReopens, blob, pending, engine, caller,
                 hookCalls, lastCommitted>>

\* waitForDb(): the promise's executor. dbRef.current set: resolve with it
\* (the awaiting operation continues in a later turn); else start the 50 ms
\* interval.
WaitStart == IF dbRef # Null THEN "resolved" ELSE "polling"

\* The operations of the gate variant's context start with
\* `const database = await waitForDb()`; they can be called from the first
\* render on, before the effect has run.
waitForDb(c, op) ==
  /\ variant = "gate"
  /\ caller[c].pc = "idle"
  /\ caller' = [caller EXCEPT ![c] =
                  [IdleCaller EXCEPT !.pc = WaitStart, !.h = dbRef,
                                     !.kind = op, !.early = (dbRef = Null)]]
  /\ outcome' = NoOutcome
  /\ UNCHANGED <<variant, exportReopens, blob, pending, engine, open, db,
                 dbRef, hookCalls, lastCommitted>>

\* Faulty variant of PollResolves: the interval's callback resolves without testing dbRef.current.
PollResolves_Unchecked == TRUE

\* The interval's callback: if (dbRef.current) { clearInterval(interval);
\* resolve(dbRef.current); } and nothing otherwise.
PollResolves == dbRef # Null

Tick(c) ==
  /\ variant = "gate"
  /\ caller[c].pc = "polling"
  /\ IF PollResolves
     THEN caller' = [caller EXCEPT ![c].pc = "resolved", ![c].h = dbRef]
     ELSE UNCHANGED caller
  /\ outcome' = NoOutcome
  /\ UNCHANGED <<variant, exportReopens, blob, pending, engine, open, db,
                 dbRef, hookCalls, lastCommitted>>

\* The statement a gate consumer issues: an INSERT, or at the bound on the
\* table's size an UPDATE, which leaves the set of rows as it is.
Statement(e) == IF CanIssue(e) THEN Insert(e) ELSE e

\* runAsync / execAsync of the gate variant, after the await:
\* database.run(query, params) / database.exec(query). A null database makes
\* the member access throw.
GateStatement(c, op) ==
  LET h == caller[c].h IN
  /\ variant = "gate"
  /\ caller[c].pc = "resolved"
  /\ caller[c].kind = op
  /\ IF h = Null
     THEN /\ outcome' = Settle(c, h, op, "TypeError")
          /\ UNCHANGED engine
     ELSE IF CanInsert(engine[h])
             THEN /\ engine' = [engine EXCEPT ![h] = Statement(engine[h])]
                  /\ outcome' = Settle(c, h, op, "ok")
             ELSE /\ outcome' = Settle(c, h, op, "QueryError")
                  /\ UNCHANGED engine
  /\ caller' = [caller EXCEPT ![c] = IdleCaller]
  /\ UNCHANGED <<variant, exportReopens, blob, pending, open, db, dbRef,
                 hookCalls, lastCommitted>>

GateRunAsync(c) == GateStatement(c, "run")

GateExecAsync(c) == GateStatement(c, "exec")

\* withExclusiveTransactionAsync of the gate variant, after the await:
\* BEGIN and the call of callback(); a rejected BEGIN goes to the catch block.
GateTxBegin(c) ==
  LET h == caller[c].h IN
  /\ variant = "gate"
  /\ caller[c].pc = "resolved"
  /\ caller[c].kind = "excl"
  /\ IF h = Null
     THEN /\ outcome' = Settle(c, h, "excl", "TypeError")
          /\ caller' = [caller EXCEPT ![c] = IdleCaller]
          /\ UNCHANGED engine
     ELSE IF engine[h].inTx
     THEN /\ engine' = [engine EXCEPT ![h] = Rollback(engine[h])]
          /\ outcome' = Settle(c, h, "excl", "BeginError")
          /\ caller' = [caller EXCEPT ![c] = IdleCaller]
     ELSE /\ engine' = [engine EXCEPT ![h] = Begin(engine[h])]
          /\ caller' = [caller EXCEPT ![c].pc = "cb"]
          /\ outcome' = NoOutcome
  /\ UNCHANGED <<variant, exportReopens, blob, pending, open, db, dbRef,
                 hookCalls, lastCommitted>>

\* The callback's promise settles.
GateCbEnd(c, ok) ==
  /\ variant = "gate"
  /\ caller[c].pc = "cb"
  /\ caller' = IF ok THEN [caller EXCEPT ![c].pc = "cbDone"]
               ELSE [caller EXCEPT ![c].pc = "cbErr", ![c].raised = "CbError"]
  /\ outcome' = NoOutcome
  /\ UNCHANGED <<variant, exportReopens, blob, pending, engine, open, db,
                 dbRef, hookCalls, lastCommitted>>

\* database.run('COMMIT'); return result;  or  catch: ROLLBACK; throw error.
\* COMMIT and ROLLBACK are rejected when no transaction is active.
GateTxEnd(c) ==
  LET h == caller[c].h IN
  /\ variant = "gate"
  /\ caller[c].pc \in {"cbDone", "cbErr"}
  /\ IF engine[h].inTx
     THEN IF caller[c].pc = "cbDone"
          THEN /\ engine' = [engine EXCEPT ![h] = Commit(engine[h])]
               /\ outcome' = SettleTx(c, "ok")
          ELSE /\ engine' = [engine EXCEPT ![h] = Rollback(engine[h])]
               /\ outcome' = SettleTx(c, caller[c].raised)
     ELSE /\ outcome' = SettleTx(c, "RollbackError")
          /\ UNCHANGED engine
  /\ caller' = [caller EXCEPT ![c] = IdleCaller]
  /\ UNCHANGED <<variant, exportReopens, blob, pending, open, db, dbRef,
                 hookCalls, lastCommitted>>

\* ------------------------------------------------------------ specification
NoCommit == [none |-> TRUE]

InitWith(variants) ==
  /\ variant \in variants
  /\ exportReopens \in (IF variant = "web" THEN BOOLEAN ELSE {FALSE})
  /\ blob = Absent
  /\ pending = <<>>
  /\ engine = [h \in Handles |-> EmptyEngine]
  /\ open = [h \in Handles |-> NotRun]
  /\ db = Null
  /\ dbRef = Null
  /\ caller = [c \in Callers |-> IdleCaller]
  /\ outcome = NoOutcome
  /\ hookCalls = 0
  /\ lastCommitted = NoCommit

\* The operations of the handle, as consumer c calls them.
Session(c) ==
  \/ execAsync(c)
  \/ runAsync(c)
  \/ withTransactionAsync(c)
  \/ withExclusiveTransactionAsync(c)
  \/ CbRun(c)
  \/ CbExec(c)
  \/ CbReturn(c)
  \/ CbThrow(c)
  \/ TxCommit(c)
  \/ TxCatch(c)

\* One run of the effect, creating handle h.
Opening(h) ==
  \/ \E hook \in BOOLEAN : SQLiteProvider(h, hook)
  \/ \E ok \in BOOLEAN : initSqlJs(h, ok)
  \/ openDatabaseAsync(h)
  \/ \E ok \in BOOLEAN : onInit(h, ok)
  \/ setDb(h)

\* The same for the gate variant.
GateOpening(h) ==
  \/ \E hook \in BOOLEAN : GateProvider(h, hook)
  \/ \E ok \in BOOLEAN : GateInitSqlJs(h, ok)
  \/ \E ok \in BOOLEAN : GateOnInit(h, ok)
  \/ GateReady(h)

GateSession(c) ==
  \/ \E op \in {"run", "exec", "excl"} : waitForDb(c, op)
  \/ Tick(c)
  \/ GateRunAsync(c)
  \/ GateExecAsync(c)
  \/ GateTxBegin(c)
  \/ \E ok \in BOOLEAN : GateCbEnd(c, ok)
  \/ GateTxEnd(c)

\* The application as src/app/_layout.tsx wires it: onInit is the same
\* function on every render, so the effect runs once per page load.
Init == InitWith({"web"})

Next ==
  \/ Opening(1)
  \/ saveDatabaseToIndexedDB("stored")
  \/ \E c \in Callers : Session(c)

Spec == Init /\ [][Next]_vars

\* The same application over page loads, with one consumer.
RoundTripNext ==
  \/ Opening(1)
  \/ saveDatabaseToIndexedDB("stored")
  \/ Restart
  \/ Session(1)

RoundTripSpec == Init /\ [][RoundTripNext]_vars

\* The provider of either variant under renders that change onInit, with one
\* consumer of the web variant's handle.
ProviderInit == InitWith({"web", "gate"})

ProviderNext ==
  \/ \E h \in Handles : Opening(h)
  \/ saveDatabaseToIndexedDB("stored")
  \/ Session(1)
  \/ \E h \in Handles : GateOpening(h)
  \/ \E c \in Callers : GateSession(c)

ProviderSpec == ProviderInit /\ [][ProviderNext]_vars

\* The application with one consumer when the environment misbehaves: the
\* Blob Store may hold bytes that are not a database when the page loads, its
\* reads and writes may fail, and queries may raise.
FaultInit ==
  /\ variant = "web"
  /\ exportReopens \in BOOLEAN
  /\ blob \in {Absent, CorruptBlob}
  /\ pending = <<>>
  /\ engine = [h \in Handles |-> EmptyEngine]
  /\ open = [h \in Handles |-> NotRun]
  /\ db = Null
  /\ dbRef = Null
  /\ caller = [c \in Callers |-> IdleCaller]
  /\ outcome = NoOutcome
  /\ hookCalls = 0
  /\ lastCommitted = NoCommit

FaultNext ==
  \/ Opening(1)
  \/ \E res \in SaveResults : saveDatabaseToIndexedDB(res)
  \/ Session(1)
  \/ getFirstAsync(1)
  \/ getAllAsync(1)

FaultSpec == FaultInit /\ [][FaultNext]_vars

\* The gate variant alone. The interval keeps firing while the page lives and
\* a resolved promise's continuation always runs.
GateInit == InitWith({"gate"})

GateNext ==
  \/ \E h \in Handles : GateOpening(h)
  \/ \E c \in Callers : GateSession(c)

GateFairness ==
  \A c \in Callers :
    /\ WF_vars(Tick(c))
    /\ WF_vars(GateRunAsync(c))
    /\ WF_vars(GateExecAsync(c))
    /\ WF_vars(GateTxBegin(c))

GateSpec == GateInit /\ [][GateNext]_vars /\ GateFairness

\* ------------------------------------------------------------------ claims
TxOps == {"tx", "excl"}

\* A transactional call has just rejected because its callback raised.
CallbackFailed == outcome.op \in TxOps /\ outcome.raised # "none"

\* A transactional call whose callback fulfilled has just settled.
CallbackSucceeded ==
  outcome.op \in TxOps /\ outcome.raised = "none" /\ outcome.res # "BeginError"

\* C1: when a transactional call has rejected because its callback raised,
\* none of the rows its callback inserted is observable: the engine holds
\* the rows it had immediately before BEGIN.
C1_RollbackRestores ==
  CallbackFailed => engine[outcome.h].rows \cap outcome.ins = {}

\* C2: a transactional call whose callback raised has issued no snapshot
\* write that changes what the Blob Store holds.
C2_FailedTxWritesNothing ==
  CallbackFailed => ~outcome.wrote

\* C3: when the callback fulfils, the call commits, then persists the
\* post-commit engine state, which holds every row the callback inserted,
\* and resolves.
C3_CommitThenPersist ==
  CallbackSucceeded =>
    /\ outcome.res = "ok"
    /\ ~engine[outcome.h].inTx
    /\ pending # <<>>
    /\ pending[Len(pending)] = Content(engine[outcome.h])
    /\ outcome.ins \subseteq engine[outcome.h].rows

\* C4: a transactional call whose callback raised rejects with exactly the
\* failure the callback raised.
C4_OriginalFailure ==
  CallbackFailed => outcome.res = outcome.raised

\* C5: while an exclusive transaction is between its BEGIN and its
\* COMMIT/ROLLBACK, no call of another caller runs a statement on the engine.
InScope(c) == caller[c].pc \in {"cb", "cbDone", "cbErr"}

C5_ExclusiveNotInterleaved ==
  \A c \in Callers :
    (InScope(c) /\ caller[c].kind = "excl")
      => ~(outcome.c \notin {0, c} /\ outcome.h = caller[c].h
                                     /\ outcome.res = "ok")

\* C6: every committing mutation through the consumer API has issued a
\* snapshot write of the state it produced.
C6_PersistAfterMutation ==
  (outcome.res = "ok" /\ ~engine[outcome.h].inTx)
    => (pending # <<>> /\ pending[Len(pending)] = Content(engine[outcome.h]))

\* C7: a fresh open, made once persistence has completed, hydrates the engine
\* with the content as of the last committed mutation.
C7_RoundTrip ==
  \A h \in Handles :
    (open[h].pc = "opened" /\ pending = <<>> /\ lastCommitted # NoCommit)
      => Content(engine[h]) = lastCommitted


\* C8: onInit is invoked exactly once in a provider lifetime: never a second
\* time, and once before the handle it initialises is published.
C8_OnInitOnce ==
  /\ hookCalls <= 1
  /\ (db # Null /\ open[db].hook) => hookCalls = 1

\* The handles a consumer's operation can reach or has reached: the context
\* value, dbRef.current, the handle an operation in progress resolved to, the
\* handle the call that just settled ran on.
Reached(h) ==
  \/ db = h
  \/ dbRef = h
  \/ \E c \in Callers : caller[c].h = h
  \/ outcome.h = h

\* Hydration and onInit have both completed for the handle.
Initialised(h) ==
  /\ open[h].pc = "published"
  /\ open[h].hook => engine[h].ver >= DATABASE_VERSION

Touching(c) == caller[c].pc \in {"resolved", "cb", "cbDone", "cbErr"}

\* C9: no operation of a consumer touches an engine before the session is
\* Ready: every handle a consumer reaches is published, with onInit's
\* migration applied, and no operation runs on a null database.
C9_ReadyBeforeUse ==
  /\ \A h \in Handles : Reached(h) => Initialised(h)
  /\ \A c \in Callers : Touching(c) => caller[c].h \in Handles
  /\ outcome.c # 0 => outcome.h \in Handles

\* C9 witness: a consumer's statement has run on a published handle whose
\* onInit hook had to complete first.
C9_Witness ==
  /\ outcome.res = "ok"
  /\ outcome.h \in Handles
  /\ open[outcome.h].hook

\* C10: an operation invoked before dbRef is set is not missed: it never runs
\* on a null database, and once dbRef is set its wait ends and its statement
\* runs; having run, the call has settled and does not run again.
C10_ExactlyOnce ==
  /\ [](outcome.early => /\ outcome.res # "TypeError"
                          /\ outcome.h \in Handles
                          /\ open[outcome.h].pc = "published")
  /\ \A c \in Callers :
       (caller[c].pc = "polling" /\ dbRef # Null)
         ~> (caller[c].pc \notin {"polling", "resolved"})

\* C10 witness: a runAsync invoked before Ready has run its statement.
C10_Witness ==
  outcome.early /\ outcome.op = "run" /\ outcome.res = "ok"

\* C11: an open that failed (the engine module did not load, the Blob Store
\* read rejected, the snapshot was rejected, or onInit raised) stays failed:
\* its handle is never the context value, never dbRef.current, and no
\* consumer's operation ever holds it.
C11_FailedOpenNeverPublished ==
  \A h \in Handles :
    open[h].err # "none" => (open[h].pc = "failed" /\ ~Reached(h))

\* C11 witness: onInit raised, nothing is published, and a consumer of the
\* gate variant is waiting.
C11_Witness ==
  /\ \E h \in Handles : open[h].err = "HookError"
  /\ db = Null
  /\ \E c \in Callers : caller[c].pc = "polling"

QueryOps == {"getFirst", "getAll"}

\* C12: when getFirstAsync or getAllAsync has completed, by returning or by
\* raising in prepare, bind or step, no statement the call created remains
\* unreleased.
C12_StatementReleased ==
  outcome.op \in QueryOps => outcome.unreleased = 0

\* C13: an open that finds stored bytes that are not a database does not
\* fail and does not build its engine from those bytes: it continues with a
\* fresh empty engine.
C13_CorruptFallsBack ==
  \A h \in Handles : open[h].err # "CorruptError" /\ ~engine[h].broken

\* C14: no open fails because a Blob Store read failed: every read failure
\* is taken as "absent".
C14_ReadFailureIsAbsent ==
  \A h \in Handles : open[h].err # "StorageError"

\* C15: a snapshot write that failed is delivered to a caller: the failure
\* settles the call of the consumer whose mutation issued the write.
C15_WriteFailureSurfaced ==
  outcome.op = "saveFailed" => outcome.c \in Callers

\* C16: at most one transaction scope is active on a handle at a time: no
\* two callers are between the BEGIN and the COMMIT/ROLLBACK of their
\* transactional calls on the same handle.
C16_OneScope ==
  \A c1, c2 \in Callers :
    (InScope(c1) /\ InScope(c2) /\ caller[c1].h = caller[c2].h) => c1 = c2

\* The published handle d is backed by an engine that has finished
\* initialising, as the state after a step shows it.
PublishedReady(d) ==
  /\ d \in Handles
  /\ open'[d].pc = "published"
  /\ open'[d].hook => engine'[d].ver >= DATABASE_VERSION

\* C17: readiness never regresses: once a handle is published (db non-null,
\* dbRef.current set) no step makes the provider not-ready again, and a step
\* that replaces the published handle puts in its place one whose engine has
\* completed hydration and onInit.
C17_ReadinessMonotone ==
  [][/\ db # Null => PublishedReady(db')
     /\ db' # db => PublishedReady(db')
     /\ dbRef # Null => PublishedReady(dbRef')
     /\ dbRef' # dbRef => PublishedReady(dbRef')]_vars

\* C17 witness: a render changed onInit, the effect ran again, and the handle
\* of one run has replaced the published handle of the other.
C17_Witness ==
  /\ db # Null
  /\ \E g \in Handles : g # db /\ open[g].pc = "published"

\* C18: a runAsync that inserted a row returns the counters of its own
\* statement, whatever other callers have in progress on the handle:
\* lastInsertRowId is the id of the row the call inserted and changes is 1.
C18_CountersOfOwnStatement ==
  (outcome.op = "run" /\ outcome.res = "ok")
    => /\ outcome.ins = {outcome.result.lastInsertRowId}
       /\ outcome.result.changes = 1

\* C18 witness: a runAsync has returned its counters while another caller's
\* transaction scope, which has inserted a row itself, is open on the handle.
C18_Witness ==
  /\ outcome.op = "run" /\ outcome.res = "ok"
  /\ \E c \in Callers :
       c # outcome.c /\ InScope(c) /\ caller[c].h = outcome.h
                     /\ caller[c].ins # {}

\* C19: a transactional call whose BEGIN was rejected because a transaction
\* is already active leaves that transaction active, its uncommitted
\* statements included.
C19_FailedBeginKeepsTransaction ==
  outcome.res = "BeginError" => engine[outcome.h].inTx

=============================================================================
